---- MODULE Spec2Model ----
(***************************************************************************)
(* Model of src/space.py: the polar-vector algebra (VectorizeParameter),   *)
(* the velocity update (ForceData.update_speed), the position update       *)
(* (SpaceData.update_coords), the step Object.interact and the first       *)
(* statement of the __main__ driver.                                       *)
(*                                                                         *)
(* Numbers.  The code computes in floating point with cos, sin, sqrt and   *)
(* atan.  The model computes the same expressions exactly, on the angles   *)
(* whose tangent is rational:                                              *)
(*   - an Angle is the pair <<c, s>> of coprime integers that points in   *)
(*     its direction, so that cos = c / |<<c, s>>| and                     *)
(*     sin = s / |<<c, s>>|;  cos(angle) and sin(angle) below are these    *)
(*     two, in units of 1 / |angle|;                                       *)
(*   - the value of a VectorizeParameter is stored in units of |angle|,    *)
(*     so that value * cos(angle) is exactly the x-projection.  Two        *)
(*     vectors with the same angle compare, scale and divide by their      *)
(*     stored values; Magnitude2 gives the true squared magnitude.         *)
(* The forces' values are even and the masses are 0, 1 or 2 in absolute     *)
(* value, so every quotient the code forms is exact (Quot has no value     *)
(* else).                                                                  *)
(* Directions with cos = 0 are left out of the inputs: the code's          *)
(* cos(90 * pi / 180) is 6.1e-17, not 0, which exact arithmetic cannot     *)
(* express.  For the same reason a sum of oblique vectors whose            *)
(* x-projections cancel exactly may miss zero by one unit in the last      *)
(* place in the code; the branch taken on fx = 0 is the same, and the      *)
(* witnesses below cancel along the x axis, where the code's cos is        *)
(* exactly 1 or -1.                                                        *)
(*                                                                         *)
(* Exceptions.  An operation that can raise returns a record whose field   *)
(* raised names the exception ("none" when it returns) and whose field     *)
(* ret holds the returned value as a sequence of length 0 or 1.            *)
(***************************************************************************)
EXTENDS Integers, Sequences, FiniteSets, TLC

VARIABLES
    space_data,  \* Object._space_data: the SpaceData's fields
    force_data,  \* Object.__force_data: the ForceData's fields
    pc,          \* position inside Object.interact: "idle" or "line149"
    frame,       \* the running (or last) call of interact: arguments and locals
    outcome,     \* what the last call of interact gave its caller
    entry,       \* history: the objects as they were when the last call began
    built,       \* history: the objects as the constructors left them
    forced,      \* history: an update with a non-empty force list has succeeded
    calls,       \* number of calls of interact so far
    main         \* position of the __main__ script

vars == <<space_data, force_data, pc, frame, outcome, entry, built, forced, calls, main>>

----------------------------------------------------------------------------
\* Bounds of the model.

MaxForces == 2   \* longest force list passed to interact
MaxCalls == 2    \* calls of interact in one behaviour

----------------------------------------------------------------------------
\* Arithmetic the code takes from Python and math.

Abs(n) == IF n < 0 THEN -n ELSE n

Sgn(n) == IF n < 0 THEN -1 ELSE IF n = 0 THEN 0 ELSE 1

\* a / b for b # 0, where the quotient is exact
Quot(a, b) == CHOOSE q \in -Abs(a)..Abs(a) : q * b = a

\* math.sqrt on the perfect squares
sqrt(n) == CHOOSE r \in 0..n : r * r = n

RECURSIVE Gcd(_, _)
Gcd(a, b) == IF b = 0 THEN a ELSE Gcd(b, a % b)

Dot(u, v) == u[1] * v[1] + u[2] * v[2]

Norm2(u) == Dot(u, u)

Raise(e) == [raised |-> e, ret |-> <<>>]

Return(v) == [raised |-> "none", ret |-> <<v>>]

----------------------------------------------------------------------------
\* class Angle

Angle0 == <<1, 0>>       \* Angle(0)
Angle45 == <<1, 1>>      \* Angle(45)
Angle135 == <<-1, 1>>    \* Angle(135)
Angle180 == <<-1, 0>>    \* Angle(180)

\* cos(angle.radians), in units of 1 / |angle|
cos(angle) == angle[1]

\* sin(angle.radians), in units of 1 / |angle|
sin(angle) == angle[2]

\* Angle.__sub__: the direction of alpha - betta (not reduced: its length is
\* |alpha| * |betta|, so cos of it is in units of 1 / (|alpha| * |betta|))
Angle__sub__(alpha, betta) ==
    <<alpha[1] * betta[1] + alpha[2] * betta[2],
      alpha[2] * betta[1] - alpha[1] * betta[2]>>

\* Variant of atan: the four-quadrant inverse tangent, which keeps the quadrant
\* of (fx, fy)
atan2(fy, fx) ==
    LET g == Gcd(Abs(fx), Abs(fy))
    IN  <<fx \div g, fy \div g>>

\* Angle(atan(fy / fx), to_deg=True) for fx # 0: the direction of slope
\* fy / fx inside (-90, 90) degrees
atan(fy, fx) ==
    LET g == Gcd(Abs(fx), Abs(fy))
    IN  <<Abs(fx) \div g, (Sgn(fx) * fy) \div g>>

----------------------------------------------------------------------------
\* class VectorizeParameter

VectorizeParameter(value, angle, name) ==
    [value |-> value, angle |-> angle, name |-> name]

DefaultName == "val"

x_vector(self) == self.value * cos(self.angle)

y_vector(self) == self.value * sin(self.angle)

\* the squared magnitude, in the code's units
Magnitude2(self) == self.value * self.value * Norm2(self.angle)

\* Variant of __add__: IEEE division, where fy / 0 is an infinity (a NaN for
\* 0 / 0) and atan of it is +-90 degrees, so that a vector is returned
__add__ieee(self, other) ==
    LET a == self.value
        b == other.value
        alpha == self.angle
        betta == other.angle
        c2 == Magnitude2(self) + Magnitude2(other)
                + 2 * a * b * cos(Angle__sub__(alpha, betta))
        fx == a * cos(alpha) + b * cos(betta)
        fy == a * sin(alpha) + b * sin(betta)
        angle == IF fx # 0 THEN atan(fy, fx)
                 ELSE IF fy = 0 THEN Angle0 ELSE <<0, Sgn(fy)>>
    IN  Return(VectorizeParameter(sqrt(c2 \div Norm2(angle)), angle, DefaultName))

__add__(self, other) ==
    LET a == self.value
        b == other.value
        alpha == self.angle
        betta == other.angle
        c2 == Magnitude2(self) + Magnitude2(other)
                + 2 * a * b * cos(Angle__sub__(alpha, betta))
        fx == a * cos(alpha) + b * cos(betta)
        fy == a * sin(alpha) + b * sin(betta)
    IN  IF fx = 0
        THEN Raise("ZeroDivisionError")
        ELSE LET angle == atan(fy, fx)
             IN  Return(VectorizeParameter(sqrt(c2 \div Norm2(angle)), angle, DefaultName))

__str__(self) == <<self.value, self.name, self.angle>>

__eq__(self, other) == __str__(other) = __str__(self)

__mul__(self, other) ==
    VectorizeParameter(self.value * other, self.angle, DefaultName)

__truediv__(self, other) ==
    IF other = 0
    THEN Raise("ZeroDivisionError")
    ELSE Return(VectorizeParameter(Quot(self.value, other), self.angle, DefaultName))

----------------------------------------------------------------------------
\* class Speed

\* linear and rotational are sequences of length 0 (None) or 1
Speed(linear, rotational) ==
    [linear |-> IF linear # <<>> THEN linear[1]
                ELSE VectorizeParameter(0, Angle0, DefaultName),
     rotational |-> IF rotational # <<>> THEN rotational[1]
                    ELSE VectorizeParameter(0, Angle0, DefaultName)]

----------------------------------------------------------------------------
\* class CollisionShape, class SquareShape

Methods(cls) ==
    CASE cls = "CollisionShape" -> {}
      [] cls = "SquareShape" -> {"top_verticals"}

AbstractMethods(cls) == {"top_verticals", "bottom_verticals"} \ Methods(cls)

\* cls(): ABC refuses to instantiate a class with abstract methods
Instantiate(cls) ==
    IF AbstractMethods(cls) # {} THEN Raise("TypeError") ELSE Return(cls)

----------------------------------------------------------------------------
\* class SpaceData

\* self is the object as __init__ leaves it, also when it raises
SpaceData__init__(size, coords, angles) ==
    LET fields == [width |-> size[1], height |-> size[2],
                   x |-> coords[1], y |-> coords[2], angle |-> angles]
        shape == Instantiate("CollisionShape")
    IN  [raised |-> shape.raised, self |-> fields]

\* Variant of update_coords: the orientation is turned to the velocity's direction
update_coords_turning(self, speed, _time) ==
    LET after == [self EXCEPT !.x = self.x + x_vector(speed) * _time,
                              !.y = self.y + y_vector(speed) * _time,
                              !.angle = speed.angle]
    IN  [self |-> after, ret |-> <<after.x, after.y>>]

update_coords(self, speed, _time) ==
    LET after == [self EXCEPT !.x = self.x + x_vector(speed) * _time,
                              !.y = self.y + y_vector(speed) * _time]
    IN  [self |-> after, ret |-> <<after.x, after.y>>]

----------------------------------------------------------------------------
\* class ForceData

ForceData__init__(mass, speed) == [mass |-> mass, speed |-> speed]

\* Variant of update_speed: returns the velocity read before the update
update_speed_stale(self, forces, _time) ==
    IF forces # <<>>
    THEN LET avg_force == forces[1]  \* line 121: the map object is never consumed
             scaled == __mul__(avg_force, _time)
             delta == __truediv__(scaled, self.mass)
             sum == __add__(self.speed.linear, delta.ret[1])
         IN  IF delta.raised # "none"
             THEN [raised |-> delta.raised, self |-> self, forces |-> forces,
                   scaled |-> <<scaled>>, ret |-> <<>>]
             ELSE IF sum.raised # "none"
             THEN [raised |-> sum.raised, self |-> self, forces |-> forces,
                   scaled |-> <<scaled>>, ret |-> <<>>]
             ELSE [raised |-> "none",
                   self |-> [self EXCEPT !.speed.linear = sum.ret[1]],
                   forces |-> forces, scaled |-> <<scaled>>,
                   ret |-> <<self.speed.linear>>]
    ELSE [raised |-> "none", self |-> self, forces |-> forces,
          scaled |-> <<>>, ret |-> <<self.speed.linear>>]

\* Variant of update_speed: no test of the list, so forces[0] fails on an empty one
update_speed_unguarded(self, forces, _time) ==
    IF forces = <<>>
    THEN [raised |-> "IndexError", self |-> self, forces |-> forces,
          scaled |-> <<>>, ret |-> <<>>]
    ELSE LET avg_force == forces[1]
             scaled == __mul__(avg_force, _time)
             delta == __truediv__(scaled, self.mass)
             sum == __add__(self.speed.linear, delta.ret[1])
         IN  IF delta.raised # "none"
             THEN [raised |-> delta.raised, self |-> self, forces |-> forces,
                   scaled |-> <<scaled>>, ret |-> <<>>]
             ELSE IF sum.raised # "none"
             THEN [raised |-> sum.raised, self |-> self, forces |-> forces,
                   scaled |-> <<scaled>>, ret |-> <<>>]
             ELSE [raised |-> "none",
                   self |-> [self EXCEPT !.speed.linear = sum.ret[1]],
                   forces |-> forces, scaled |-> <<scaled>>, ret |-> sum.ret]

\* Variant of update_speed: the velocity is overwritten with the scaled force
\* before the sum is formed
update_speed_in_place(self, forces, _time) ==
    IF forces # <<>>
    THEN LET avg_force == forces[1]  \* line 121: the map object is never consumed
             scaled == __mul__(avg_force, _time)
             delta == __truediv__(scaled, self.mass)
             sum == __add__(self.speed.linear, delta.ret[1])
         IN  IF delta.raised # "none"
             THEN [raised |-> delta.raised, self |-> self, forces |-> forces,
                   scaled |-> <<scaled>>, ret |-> <<>>]
             ELSE IF sum.raised # "none"
             THEN [raised |-> sum.raised,
                   self |-> [self EXCEPT !.speed.linear = delta.ret[1]],
                   forces |-> forces,
                   scaled |-> <<scaled>>, ret |-> <<>>]
             ELSE [raised |-> "none",
                   self |-> [self EXCEPT !.speed.linear = sum.ret[1]],
                   forces |-> forces, scaled |-> <<scaled>>, ret |-> sum.ret]
    ELSE [raised |-> "none", self |-> self, forces |-> forces,
          scaled |-> <<>>, ret |-> <<self.speed.linear>>]

\* self is the ForceData after the call, forces the argument list after it
update_speed(self, forces, _time) ==
    IF forces # <<>>
    THEN LET avg_force == forces[1]  \* line 121: the map object is never consumed
             scaled == __mul__(avg_force, _time)
             delta == __truediv__(scaled, self.mass)
             sum == __add__(self.speed.linear, delta.ret[1])
         IN  IF delta.raised # "none"
             THEN [raised |-> delta.raised, self |-> self, forces |-> forces,
                   scaled |-> <<scaled>>, ret |-> <<>>]
             ELSE IF sum.raised # "none"
             THEN [raised |-> sum.raised, self |-> self, forces |-> forces,
                   scaled |-> <<scaled>>, ret |-> <<>>]
             ELSE [raised |-> "none",
                   self |-> [self EXCEPT !.speed.linear = sum.ret[1]],
                   forces |-> forces, scaled |-> <<scaled>>, ret |-> sum.ret]
    ELSE [raised |-> "none", self |-> self, forces |-> forces,
          scaled |-> <<>>, ret |-> <<self.speed.linear>>]

----------------------------------------------------------------------------
\* Inputs

Masses == {-2, 0, 1, 2}

Times == {-1, 1, 2}

Forces ==
    { VectorizeParameter(2, Angle180, DefaultName),
      VectorizeParameter(4, Angle135, "F") }

Linears ==
    { <<>>,
      <<VectorizeParameter(2, Angle0, DefaultName)>>,
      <<VectorizeParameter(-1, Angle45, "v")>> }

ForceLists == UNION { [1..n -> Forces] : n \in 0..MaxForces }

----------------------------------------------------------------------------
\* The state machine

Init ==
    /\ \E mass \in Masses, linear \in Linears :
          force_data = ForceData__init__(mass, Speed(linear, <<>>))
    /\ space_data = SpaceData__init__(<<50, 50>>, <<0, 0>>, Angle0).self
    /\ pc = "idle"
    /\ frame = [args |-> <<>>, time |-> 1, scaled |-> <<>>, speed |-> <<>>]
    /\ outcome = [raised |-> "none", coords |-> <<>>]
    /\ entry = [space_data |-> space_data, force_data |-> force_data, args |-> <<>>]
    /\ built = [space_data |-> space_data, force_data |-> force_data]
    /\ forced = FALSE
    /\ calls = 0
    /\ main = "line154"

\* Object.interact, line 148: speed = self.__force_data.update_speed(args, _time)
interact_update_speed ==
    /\ pc = "idle"
    /\ calls < MaxCalls
    /\ \E args \in ForceLists, _time \in Times :
          LET r == update_speed(force_data, args, _time)
          IN  /\ entry' = [space_data |-> space_data, force_data |-> force_data,
                           args |-> args]
              /\ force_data' = r.self
              /\ frame' = [args |-> r.forces, time |-> _time,
                           scaled |-> r.scaled, speed |-> r.ret]
              /\ outcome' = [raised |-> r.raised, coords |-> <<>>]
              /\ pc' = IF r.raised = "none" THEN "line149" ELSE "idle"
              /\ forced' = (forced \/ (r.raised = "none" /\ args # <<>>))
    /\ calls' = calls + 1
    /\ UNCHANGED <<space_data, built, main>>

\* Object.interact, lines 149-150: coords = self._space_data.update_coords(speed, _time)
interact_update_coords ==
    /\ pc = "line149"
    /\ LET r == update_coords(space_data, frame.speed[1], frame.time)
       IN  /\ space_data' = r.self
           /\ outcome' = [raised |-> "none", coords |-> <<r.ret>>]
    /\ pc' = "idle"
    /\ UNCHANGED <<force_data, frame, entry, built, forced, calls, main>>

\* __main__, lines 154-158: the tuple's first element is evaluated first
Main ==
    /\ main = "line154"
    /\ LET s == SpaceData__init__(<<50, 50>>, <<0, 0>>, Angle0)
       IN  main' = IF s.raised # "none" THEN s.raised ELSE "line159"
    /\ UNCHANGED <<space_data, force_data, pc, frame, outcome, entry, built, forced, calls>>

Next ==
    \/ interact_update_speed
    \/ interact_update_coords
    \/ Main

Spec == Init /\ [][Next]_vars

----------------------------------------------------------------------------
\* What the last call of interact computed, recomputed from its entry state

\* the call reached line 122 with a non-empty list
AddendFormed == calls > 0 /\ entry.args # <<>> /\ entry.force_data.mass # 0

\* avg_force * _time / self.mass of the last call
EntryDelta ==
    __truediv__(__mul__(entry.args[1], frame.time), entry.force_data.mass).ret[1]

\* fx of the sum formed on line 122
EntryFx == x_vector(entry.force_data.speed.linear) + x_vector(EntryDelta)

\* the call returned to its caller
Completed == calls > 0 /\ pc = "idle" /\ outcome.raised = "none"

\* the left fold of __add__ over a force list
RECURSIVE FoldAdd(_, _)
FoldAdd(acc, rest) ==
    IF rest = <<>> \/ acc.raised # "none"
    THEN acc
    ELSE FoldAdd(__add__(acc.ret[1], Head(rest)), Tail(rest))

NetForce(forces) == FoldAdd(Return(Head(forces)), Tail(forces))

\* old velocity + (sum of all forces) * _time / mass
NetVelocity ==
    LET net == NetForce(entry.args)
        delta == __truediv__(__mul__(net.ret[1], frame.time), entry.force_data.mass)
    IN  IF net.raised # "none" THEN net
        ELSE IF delta.raised # "none" THEN delta
        ELSE __add__(entry.force_data.speed.linear, delta.ret[1])

----------------------------------------------------------------------------
\* Claims

\* C1: after an update with a non-empty force list, the linear velocity is the
\* old velocity plus the left fold of all the forces, times _time over mass
\* (wherever that sum is defined): every force of the list contributes.
C1_AllForcesContribute ==
    (AddendFormed /\ outcome.raised = "none" /\ NetVelocity.raised = "none")
        => force_data.speed.linear = NetVelocity.ret[1]

\* C2: when interact reaches its position update the velocity update is
\* complete (the velocity in hand is the stored one, the position is still the
\* one at entry), and the returned and stored (x, y) are the entry (x, y) plus
\* the projections of the velocity as updated by this step, times _time.
C2_VelocityBeforePosition ==
    /\ pc = "line149" =>
          /\ frame.speed = <<force_data.speed.linear>>
          /\ space_data = entry.space_data
    /\ Completed =>
          /\ outcome.coords =
                << <<entry.space_data.x + x_vector(force_data.speed.linear) * frame.time,
                     entry.space_data.y + y_vector(force_data.speed.linear) * frame.time>> >>
          /\ <<space_data.x, space_data.y>> = outcome.coords[1]

\* C2 witness: a completed step whose force changed the velocity's projections,
\* so that the velocity at entry would have given another position
C2_Witness ==
    /\ Completed
    /\ entry.args # <<>>
    /\ x_vector(entry.force_data.speed.linear) # x_vector(force_data.speed.linear)
    /\ y_vector(entry.force_data.speed.linear) # y_vector(force_data.speed.linear)

\* C3: no ForceData with mass <= 0 exists: its construction has failed.
C3_MassIsPositive == force_data.mass > 0

\* C4: whenever the sum on line 122 has a zero x-projection, no vector is
\* returned: ZeroDivisionError is raised, and interact ends with it, before its
\* position update and without returning coordinates.
C4_ZeroProjectionRaises ==
    (AddendFormed /\ EntryFx = 0) =>
        /\ pc = "idle"
        /\ outcome = [raised |-> "ZeroDivisionError", coords |-> <<>>]
        /\ frame.speed = <<>>

\* C4 witness: a non-zero velocity along the x axis cancelled by the scaled force
C4_Witness ==
    /\ AddendFormed
    /\ EntryFx = 0
    /\ x_vector(entry.force_data.speed.linear) # 0
    /\ entry.force_data.speed.linear.angle = Angle0
    /\ EntryDelta.angle = Angle180
    /\ outcome.raised = "ZeroDivisionError"

\* C5: the scaled force avg_force * _time has _time times the value of
\* avg_force, its angle and its name, and for _time = 1 it equals avg_force
\* under __eq__.
C5_ScaleKeepsName ==
    (calls > 0 /\ entry.args # <<>>) =>
        LET v == entry.args[1]
            scaled == frame.scaled[1]
        IN  /\ scaled.value = v.value * frame.time
            /\ scaled.angle = v.angle
            /\ scaled.name = v.name
            /\ (frame.time = 1 => __eq__(scaled, v))

\* C6: the __main__ script does not end with an exception.
C6_DriverTerminatesNormally == main # "TypeError"

\* C7: a call with an empty force list leaves the linear velocity as it was,
\* whatever the mass and _time, raises nothing and returns that velocity.
C7_EmptyForcesKeepVelocity ==
    (calls > 0 /\ entry.args = <<>>) =>
        /\ force_data.speed.linear = entry.force_data.speed.linear
        /\ outcome.raised = "none"
        /\ frame.speed = <<entry.force_data.speed.linear>>

\* C7 witness: the second of two calls, made with an empty list on a ForceData
\* of mass 0 and a non-zero velocity
C7_Witness ==
    /\ calls = 2
    /\ Completed
    /\ entry.args = <<>>
    /\ force_data.mass = 0
    /\ force_data.speed.linear.value # 0

\* C8: once an update with a non-empty force list has succeeded, the linear
\* velocity is a result of __add__: its magnitude is non-negative, its angle is
\* inside (-90, 90) degrees, its x-projection is non-negative, and no call with
\* _time > 0 lowers x.
C8_AddLosesQuadrant ==
    forced =>
        /\ force_data.speed.linear.value >= 0
        /\ cos(force_data.speed.linear.angle) > 0
        /\ x_vector(force_data.speed.linear) >= 0
        /\ (frame.time > 0 => space_data.x >= entry.space_data.x)

\* C8 witness: a completed step whose sum had a negative x-projection and a
\* non-zero y-projection, and which moved the body to the right
C8_Witness ==
    /\ Completed
    /\ AddendFormed
    /\ EntryFx < 0
    /\ y_vector(force_data.speed.linear) # 0
    /\ frame.time > 0
    /\ space_data.x > entry.space_data.x

\* C9: a call of interact that raises leaves the linear velocity, the position
\* and every other field as they were when it began.
C9_FailedStepChangesNothing ==
    (calls > 0 /\ outcome.raised # "none") =>
        /\ pc = "idle"
        /\ force_data = entry.force_data
        /\ space_data = entry.space_data

\* C9 witness: the sum on line 122 raised (a velocity along the x axis
\* cancelled by the scaled force), on a body that an earlier step had moved
C9_Witness ==
    /\ outcome.raised # "none"
    /\ AddendFormed
    /\ EntryFx = 0
    /\ entry.force_data.speed.linear.angle = Angle0
    /\ EntryDelta.angle = Angle180
    /\ forced
    /\ <<space_data.x, space_data.y>> # <<built.space_data.x, built.space_data.y>>

\* C10: the orientation, the extent, the mass and the rotational velocity are
\* those of construction, and the forces passed to the last call are as they
\* were passed.
C10_StepFrame ==
    /\ space_data.angle = built.space_data.angle
    /\ space_data.width = built.space_data.width
    /\ space_data.height = built.space_data.height
    /\ force_data.mass = built.force_data.mass
    /\ force_data.speed.rotational = built.force_data.speed.rotational
    /\ frame.args = entry.args

\* C10 witness: two calls have changed the velocity, its direction and the position
C10_Witness ==
    /\ calls = 2
    /\ Completed
    /\ frame.args # <<>>
    /\ force_data.speed.linear.angle # built.force_data.speed.linear.angle
    /\ force_data.speed.linear.angle # built.space_data.angle
    /\ space_data.x # built.space_data.x
    /\ space_data.y # built.space_data.y

====
